---- MODULE Spec2Model ----
(***************************************************************************)
(* Model of scripts/extract-tokens.py (token accounting of session         *)
(* transcripts) and .github/scripts/add-records-from-scan.py (DNS record   *)
(* provisioning).                                                          *)
(*                                                                         *)
(* Conventions.                                                            *)
(*  - A Python str is a sequence of one-character strings.                 *)
(*  - A JSON text is modelled by the value json.loads gives for it: a      *)
(*    record tagged by t ("num", "str", "null", "list", "obj"), or Bad for *)
(*    a text json.loads rejects with JSONDecodeError (the empty text       *)
(*    included).  Dictionary keys are TLA+ strings.                        *)
(*  - A function that can raise returns a record whose field exc names     *)
(*    the exception, "none" when it returns normally.                      *)
(*  - Money is exact: a cost is an integer number of 10^-8 USD, so that a  *)
(*    price of 0.80 USD per 1,000,000 tokens is 80 units per token.        *)
(***************************************************************************)
EXTENDS Integers, Sequences, FiniteSets, TLC

VARIABLES
    \* extract_tokens_from_file, one line at a time
    lines, totals, fstatus,
    \* one call of get_agent_info, extract_issue_number or calculate_cost
    ufn, uarg, uret,
    \* main of extract-tokens.py: the command line and what its paths name
    argv, argKind, defaultKind,
    \* main of extract-tokens.py: its locals, its output and how it ended
    pc, summary_only, project_dir, tree, sessions, cursor, all_subagents,
    appended, out, exc, exit_status,
    \* main of add-records-from-scan.py
    dns_argv, dns_data, dns_pc, max_records, dns_i, success_count,
    error_count, requests, dns_exc, dns_exit

extractVars == <<lines, totals, fstatus>>
unitVars == <<ufn, uarg, uret>>
worldVars == <<argv, argKind, defaultKind>>
mainVars == <<pc, summary_only, project_dir, tree, sessions, cursor,
              all_subagents, appended, out, exc, exit_status>>
dnsVars == <<dns_argv, dns_data, dns_pc, max_records, dns_i, success_count,
             error_count, requests, dns_exc, dns_exit>>
vars == <<extractVars, unitVars, worldVars, mainVars, dnsVars>>

----------------------------------------------------------------------------
(* Bounds of the model *)

\* longest transcript the line-by-line scan reads
MaxLines == 3
\* largest token count of one usage field
MaxTok == 1
\* largest token count of one counter given to calculate_cost
MaxCount == 2
\* most directories under the project root
MaxDirs == 3
\* most records of a scan result, and the largest max_records argument
MaxRecords == 3

----------------------------------------------------------------------------
(* Program constants *)

\* prices per 1,000,000 tokens, in hundredths of a USD
HAIKU_INPUT_PRICE == 80
HAIKU_OUTPUT_PRICE == 400
HAIKU_CACHE_READ_PRICE == 8
HAIKU_CACHE_WRITE_PRICE == 100
OPUS_INPUT_PRICE == 1500
OPUS_OUTPUT_PRICE == 7500
\* longest task get_agent_info keeps
TaskMax == 100
\* longest task a collected entry keeps
EntryTaskMax == 50
\* max_records when the command line gives none
DefaultMaxRecords == 5

----------------------------------------------------------------------------
(* Python strings *)

Digits == {"0", "1", "2", "3", "4", "5", "6", "7", "8", "9"}

\* ord(c) for the characters the model uses
Ord(c) ==
    CASE c = "\n" -> 10
      [] c = "#" -> 35
      [] c = "-" -> 45
      [] c = "." -> 46
      [] c = "0" -> 48
      [] c = "1" -> 49
      [] c = "2" -> 50
      [] c = "3" -> 51
      [] c = "4" -> 52
      [] c = "5" -> 53
      [] c = "6" -> 54
      [] c = "7" -> 55
      [] c = "8" -> 56
      [] c = "9" -> 57
      [] c = "a" -> 97
      [] c = "e" -> 101
      [] c = "g" -> 103
      [] c = "j" -> 106
      [] c = "l" -> 108
      [] c = "m" -> 109
      [] c = "n" -> 110
      [] c = "o" -> 111
      [] c = "s" -> 115
      [] c = "t" -> 116
      [] c = "u" -> 117
      [] c = "x" -> 120

Min(a, b) == IF a <= b THEN a ELSE b

\* s < t for two str, as Python compares them: by code point, a proper
\* prefix first
StrLess(s, t) ==
    \E i \in 1..(Min(Len(s), Len(t)) + 1) :
        /\ \A j \in 1..(i - 1) : s[j] = t[j]
        /\ \/ i = Len(s) + 1 /\ i <= Len(t)
           \/ i <= Len(s) /\ i <= Len(t) /\ Ord(s[i]) < Ord(t[i])

\* sub in s, for two str
IsSubstring(sub, s) ==
    \E i \in 0..(Len(s) - Len(sub)) :
        \A j \in 1..Len(sub) : s[i + j] = sub[j]

\* s[:n] for n >= 0
Prefix(s, n) == SubSeq(s, 1, Min(n, Len(s)))

\* s.split('\n')[0]
FirstLineOf(s) ==
    IF \E i \in 1..Len(s) : s[i] = "\n"
    THEN LET i == CHOOSE k \in 1..Len(s) :
                      s[k] = "\n" /\ \A j \in 1..(k - 1) : s[j] # "\n"
         IN SubSeq(s, 1, i - 1)
    ELSE s

\* the characters of the dictionary keys that the code also looks up in a str
KeyChars(k) ==
    CASE k = "message" -> <<"m", "e", "s", "s", "a", "g", "e">>
      [] k = "usage" -> <<"u", "s", "a", "g", "e">>

----------------------------------------------------------------------------
(* JSON values, as json.loads returns them *)

Bad == [t |-> "bad"]
JNull == [t |-> "null"]
JNum(n) == [t |-> "num", v |-> n]
JStr(s) == [t |-> "str", v |-> s]
JList(xs) == [t |-> "list", v |-> xs]
JObj(f) == [t |-> "obj", v |-> f]

\* k in v, for a str k: "yes", "no" or "TypeError" (v is not iterable)
PyIn(k, v) ==
    CASE v.t = "obj" -> IF k \in DOMAIN v.v THEN "yes" ELSE "no"
      [] v.t = "list" ->
            IF \E i \in 1..Len(v.v) : v.v[i] = JStr(KeyChars(k))
            THEN "yes" ELSE "no"
      [] v.t = "str" -> IF IsSubstring(KeyChars(k), v.v) THEN "yes" ELSE "no"
      [] OTHER -> "TypeError"

\* d.get(k, default) for a dict d
Get(d, k, default) == IF k \in DOMAIN d.v THEN d.v[k] ELSE default

----------------------------------------------------------------------------
(* extract_tokens_from_file *)

Fields == {"input_tokens", "output_tokens",
           "cache_creation_input_tokens", "cache_read_input_tokens"}

ZeroTotals == [f \in Fields |-> 0]

\* the usage object of a parsed line, when lines 67-68 reach one:
\* exc "none" and found FALSE is a line the scan passes over
UsageOf(data) ==
    LET in1 == PyIn("message", data) IN
    IF in1 = "TypeError" THEN [exc |-> "TypeError", found |-> FALSE]
    ELSE IF in1 = "no" THEN [exc |-> "none", found |-> FALSE]
    ELSE IF data.t # "obj" THEN [exc |-> "TypeError", found |-> FALSE]
    ELSE LET m == data.v["message"]
             in2 == PyIn("usage", m) IN
         IF in2 = "TypeError" THEN [exc |-> "TypeError", found |-> FALSE]
         ELSE IF in2 = "no" THEN [exc |-> "none", found |-> FALSE]
         ELSE IF m.t # "obj" THEN [exc |-> "TypeError", found |-> FALSE]
         ELSE [exc |-> "none", found |-> TRUE, usage |-> m.v["usage"]]

\* AddUsage with = where the code has +=
AddUsageAssign(tot, usage) ==
    IF usage.t # "obj" THEN [exc |-> "AttributeError", totals |-> tot]
    ELSE IF \E f \in Fields : Get(usage, f, JNum(0)).t # "num"
         THEN [exc |-> "TypeError", totals |-> tot]
         ELSE [exc |-> "none",
               totals |-> [f \in Fields |-> Get(usage, f, JNum(0)).v]]

\* lines 69-72 with every field added to its own counter
AddUsage(tot, usage) ==
    IF usage.t # "obj" THEN [exc |-> "AttributeError", totals |-> tot]
    ELSE IF \E f \in Fields : Get(usage, f, JNum(0)).t # "num"
         THEN [exc |-> "TypeError", totals |-> tot]
         ELSE [exc |-> "none",
               totals |-> [f \in Fields |-> tot[f] + Get(usage, f, JNum(0)).v]]

\* the body of the loop for one line (lines 65-74)
ScanLine(tot, line) ==
    IF line = Bad THEN [exc |-> "none", totals |-> tot]
    ELSE LET u == UsageOf(line) IN
         IF u.exc # "none" THEN [exc |-> u.exc, totals |-> tot]
         ELSE IF ~u.found THEN [exc |-> "none", totals |-> tot]
         ELSE AddUsage(tot, u.usage)

RECURSIVE ScanFrom(_, _, _)
ScanFrom(tot, ls, i) ==
    IF i > Len(ls) THEN [exc |-> "none", totals |-> tot]
    ELSE LET r == ScanLine(tot, ls[i]) IN
         IF r.exc # "none" THEN r ELSE ScanFrom(r.totals, ls, i + 1)

\* extract_tokens_from_file on a file holding the lines ls
ExtractTokens(ls) == ScanFrom(ZeroTotals, ls, 1)

----------------------------------------------------------------------------
(* Transcript lines *)

TokVals == (0 - 1)..MaxTok

EmptyDict == [k \in {} |-> JNull]

\* usage objects: no field, one field, or all four
UsageObjs ==
    {EmptyDict}
    \cup {[k \in {f} |-> JNum(n)] : f \in Fields, n \in TokVals}
    \cup {[k \in Fields |-> JNum(n)] : n \in TokVals}

UsageLine(u) == JObj([message |-> JObj([usage |-> JObj(u)])])

UsageLines == {UsageLine(u) : u \in UsageObjs}

\* parseable lines that carry no well-formed usage object
OtherLines ==
    { JNum(7),                                        \* 7
      JNull,                                          \* null
      JList(<<>>),                                    \* []
      JStr(<<"o", "s">>),                             \* "os"
      JObj([type |-> JStr(<<"s">>)]),                 \* {"type": "s"}
      JObj([message |-> JStr(<<"o", "s">>)]),         \* {"message": "os"}
      JObj([message |-> JNull]),                      \* {"message": null}
      JObj([message |-> JObj([role |-> JStr(<<"u">>)])]),
      JObj([message |-> JObj([usage |-> JNull])]),    \* usage is null
      UsageLine([k \in {"input_tokens"} |-> JStr(<<"1">>)]) }

Lines == {Bad} \cup OtherLines \cup UsageLines

----------------------------------------------------------------------------
(* The line-by-line scan of extract_tokens_from_file *)

InitExtract ==
    /\ lines = <<>>
    /\ totals = ZeroTotals
    /\ fstatus = "scanning"

\* the loop reads the next line of the file and processes it
ReadLine ==
    /\ fstatus = "scanning"
    /\ Len(lines) < MaxLines
    /\ \E line \in Lines :
        LET r == ScanLine(totals, line) IN
        /\ lines' = Append(lines, line)
        /\ totals' = r.totals
        /\ fstatus' = IF r.exc = "none" THEN "scanning" ELSE r.exc
    /\ UNCHANGED <<unitVars, worldVars, mainVars, dnsVars>>

\* the file is exhausted: return totals
ReturnTotals ==
    /\ fstatus = "scanning"
    /\ fstatus' = "returned"
    /\ UNCHANGED <<lines, totals>>
    /\ UNCHANGED <<unitVars, worldVars, mainVars, dnsVars>>

----------------------------------------------------------------------------
(* get_agent_info *)

Unknown == <<"u", "n", "k", "n", "o", "w", "n">>

\* lines 86-96 for a first line that parsed
InfoOf(data) ==
    IF data.t # "obj" THEN [exc |-> "AttributeError"]
    ELSE
      LET base == [session_id |-> Get(data, "sessionId", JStr(Unknown)),
                   agent_id |-> Get(data, "agentId", JNull),
                   slug |-> Get(data, "slug", JStr(<<>>)),
                   git_branch |-> Get(data, "gitBranch", JStr(<<>>))]
      IN
      IF "message" \notin DOMAIN data.v THEN [exc |-> "none", info |-> base]
      ELSE LET m == data.v["message"] IN
           IF m.t # "obj" THEN [exc |-> "AttributeError"]
           ELSE IF Get(m, "role", JNull) # JStr(<<"u", "s", "e", "r">>)
                THEN [exc |-> "none", info |-> base]
                ELSE LET content == Get(m, "content", JStr(<<>>)) IN
                     IF content.t # "str" THEN [exc |-> "none", info |-> base]
                     ELSE [exc |-> "none",
                           info |-> base @@
                               [task |-> JStr(Prefix(FirstLineOf(content.v),
                                                     TaskMax))]]

\* get_agent_info on a file holding the lines ls; readline gives "" for an
\* empty file, which json.loads rejects
GetAgentInfo(ls) ==
    LET data == IF ls = <<>> THEN Bad ELSE ls[1] IN
    IF data = Bad THEN [exc |-> "none", info |-> EmptyDict]
    ELSE InfoOf(data)

----------------------------------------------------------------------------
(* extract_issue_number *)

\* where re.search(r'#(\d+)', task) matches first: a '#' followed by a digit
MatchStarts(task) ==
    {i \in 1..(Len(task) - 1) : task[i] = "#" /\ task[i + 1] \in Digits}

\* the digits after the first such '#', as many as follow (\d+ is greedy);
\* "" when there is no match
ExtractIssueNumber(task) ==
    IF MatchStarts(task) = {} THEN <<>>
    ELSE LET i == CHOOSE k \in MatchStarts(task) :
                      \A j \in MatchStarts(task) : k <= j
             last == CHOOSE e \in (i + 1)..Len(task) :
                      /\ \A j \in (i + 1)..e : task[j] \in Digits
                      /\ e = Len(task) \/ task[e + 1] \notin Digits
         IN SubSeq(task, i + 1, last)

----------------------------------------------------------------------------
(* calculate_cost *)

\* OpusCost with the cache tokens left out of total_input
OpusCostDirectOnly(tokens) ==
    tokens["input_tokens"] * OPUS_INPUT_PRICE
    + tokens["output_tokens"] * OPUS_OUTPUT_PRICE

\* the opus branch (lines 38-45)
OpusCost(tokens) ==
    (tokens["input_tokens"] + tokens["cache_creation_input_tokens"]
        + tokens["cache_read_input_tokens"]) * OPUS_INPUT_PRICE
    + tokens["output_tokens"] * OPUS_OUTPUT_PRICE

\* the haiku branch (lines 32-36)
HaikuCost(tokens) ==
    tokens["input_tokens"] * HAIKU_INPUT_PRICE
    + tokens["output_tokens"] * HAIKU_OUTPUT_PRICE
    + tokens["cache_read_input_tokens"] * HAIKU_CACHE_READ_PRICE
    + tokens["cache_creation_input_tokens"] * HAIKU_CACHE_WRITE_PRICE

CalculateCost(tokens, model) ==
    IF model = "haiku" THEN HaikuCost(tokens) ELSE OpusCost(tokens)

\* the three cost fields of a collected sub-task entry (lines 215-227)
CostFields(tokens) ==
    [haiku_cost |-> CalculateCost(tokens, "haiku"),
     opus_cost |-> CalculateCost(tokens, "opus"),
     savings |-> CalculateCost(tokens, "opus") - CalculateCost(tokens, "haiku")]

----------------------------------------------------------------------------
(* First lines and task texts the single calls are tried on *)

Pad(n) == [i \in 1..n |-> "x"]

PadLens == {0, 1, TaskMax - 1, TaskMax, TaskMax + 1}

Tails == { <<>>, <<"\n">>, <<"\n", "x">>, <<"#", "1", "2">>,
           <<"#", "5", "\n", "#", "7">>, <<"#", "x", "#", "0", "7", "x">> }

Contents == {Pad(n) \o tl : n \in PadLens, tl \in Tails}

User == JStr(<<"u", "s", "e", "r">>)

Messages ==
    {JObj([role |-> User, content |-> JStr(c)]) : c \in Contents}
    \cup { JObj([role |-> User]),
           JObj([role |-> User, content |-> JList(<<>>)]),
           JObj([role |-> JStr(<<"a">>), content |-> JStr(<<"#", "1">>)]),
           JObj([content |-> JStr(<<"#", "1">>)]),
           JStr(<<"x">>),
           JNull,
           JList(<<>>) }

Metas ==
    { EmptyDict,
      [sessionId |-> JStr(<<"s", "1">>), agentId |-> JStr(<<"a", "1">>),
       slug |-> JStr(<<"g">>), gitBranch |-> JStr(<<"m">>)] }

FirstLines ==
    {Bad, JNum(7), JNull, JList(<<>>), JStr(<<"x">>)}
    \cup {JObj(meta) : meta \in Metas}
    \cup {JObj(meta @@ [message |-> m]) : meta \in Metas, m \in Messages}

\* files of at most one line
InfoFiles == {<<>>} \cup {<<l>> : l \in FirstLines}

Tasks == {Prefix(FirstLineOf(c), TaskMax) : c \in Contents}

CountRecords == [Fields -> 0..MaxCount]

----------------------------------------------------------------------------
(* One call of a function *)

Pending == [status |-> "pending"]

InitUnit ==
    /\ uret = Pending
    /\ \/ ufn = "get_agent_info" /\ uarg \in InfoFiles
       \/ ufn = "extract_issue_number" /\ uarg \in Tasks
       \/ ufn = "calculate_cost" /\ uarg \in CountRecords

CallGetAgentInfo ==
    /\ ufn = "get_agent_info"
    /\ uret = Pending
    /\ uret' = [status |-> "done"] @@ GetAgentInfo(uarg)
    /\ UNCHANGED <<ufn, uarg>>
    /\ UNCHANGED <<extractVars, worldVars, mainVars, dnsVars>>

CallExtractIssueNumber ==
    /\ ufn = "extract_issue_number"
    /\ uret = Pending
    /\ uret' = [status |-> "done", issue |-> ExtractIssueNumber(uarg)]
    /\ UNCHANGED <<ufn, uarg>>
    /\ UNCHANGED <<extractVars, worldVars, mainVars, dnsVars>>

CallCalculateCost ==
    /\ ufn = "calculate_cost"
    /\ uret = Pending
    /\ uret' = [status |-> "done"] @@ CostFields(uarg)
    /\ UNCHANGED <<ufn, uarg>>
    /\ UNCHANGED <<extractVars, worldVars, mainVars, dnsVars>>

----------------------------------------------------------------------------
(* Paths *)

JSONL == <<".", "j", "s", "o", "n", "l">>
AGENT == <<"a", "g", "e", "n", "t", "-">>
SUMMARY == <<"-", "-", "s", "u", "m", "m", "a", "r", "y">>

StartsWith(s, p) == Len(p) <= Len(s) /\ SubSeq(s, 1, Len(p)) = p

\* where the suffix of a file name starts: its last dot, unless that dot
\* leads the name; 0 when the name has no suffix
SuffixAt(name) ==
    LET dots == {i \in 2..Len(name) : name[i] = "."} IN
    IF dots = {} \/ name[Len(name)] = "." THEN 0
    ELSE CHOOSE i \in dots : \A j \in dots : j <= i

\* Path.suffix and Path.stem of a one-component path
Suffix(name) ==
    IF SuffixAt(name) = 0 THEN <<>>
    ELSE SubSeq(name, SuffixAt(name), Len(name))

Stem(name) ==
    IF SuffixAt(name) = 0 THEN name ELSE SubSeq(name, 1, SuffixAt(name) - 1)

\* s.replace(old, "")
RECURSIVE Remove(_, _)
Remove(s, old) ==
    IF s = <<>> THEN <<>>
    ELSE IF StartsWith(s, old) THEN Remove(SubSeq(s, Len(old) + 1, Len(s)), old)
    ELSE <<s[1]>> \o Remove(Tail(s), old)

\* Sorted with the paths in descending order
SortedReverse(S) ==
    [k \in 1..Cardinality(S) |->
        CHOOSE x \in S : Cardinality({y \in S : StrLess(x, y)}) = k - 1]

\* sorted(...) of a set of paths in one directory: the k-th path is the one
\* with k - 1 paths below it
Sorted(S) ==
    [k \in 1..Cardinality(S) |->
        CHOOSE x \in S : Cardinality({y \in S : StrLess(y, x)}) = k - 1]

Range(s) == {s[i] : i \in 1..Len(s)}

----------------------------------------------------------------------------
(* The project directory *)

\* names of the directories under the root, and identifiers of agent files
DirNames == {<<"1">>, <<"1", "0">>, <<"2">>}
AgentIds == {<<"1">>, <<"1", "-", "0">>}

\* the transcripts lying in the root: sessions 1 and 2 have one, whether or
\* not a directory of their name exists; session 10 has none
RootFiles == {<<"1">> \o JSONL, <<"2">> \o JSONL}

\* a directory under the root: whether it holds a subagents directory and
\* which agent-<id>.jsonl files that holds
DirShapes ==
    {d \in [sub : BOOLEAN, agents : SUBSET AgentIds] : ~d.sub => d.agents = {}}

\* the directories under a root
Trees ==
    UNION {[D -> DirShapes] : D \in {D \in SUBSET DirNames : Cardinality(D) <= MaxDirs}}

NoTree == [d \in {} |-> 0]

AgentFile(id) == AGENT \o id \o JSONL

\* project_dir.iterdir(): the directories and the transcripts beside them
IterDir(t) == DOMAIN t \cup RootFiles

\* main_transcript.exists() for the session directory d
MainExists(d) == (d \o JSONL) \in RootFiles

\* subagents_dir.glob("agent-*.jsonl")
GlobAgents(t, d) == {AgentFile(id) : id \in t[d].agents}

\* lines 181-183: the session directories, in the order they are scanned
FindSessions(t) ==
    LET IsSession(item) == item \in DOMAIN t /\ t[item].sub
    IN SelectSeq(Sorted(IterDir(t)), IsSession)

----------------------------------------------------------------------------
(* Transcripts the runs of main read *)

UserLine(text) == JObj([gitBranch |-> JStr(<<"m">>),
                        message |-> JObj([role |-> User, content |-> JStr(text)])])

\* an empty transcript; two transcripts of a task with an issue reference;
\* a transcript whose only line is the JSON number 7
SampleFiles ==
    { <<>>,
      <<UserLine(<<"#", "1", "2", "\n", "x">>),
        UsageLine([input_tokens |-> JNum(3), output_tokens |-> JNum(2)])>>,
      <<UserLine(<<"x", "#", "5">>),
        Bad,
        UsageLine([k \in Fields |-> JNum(1)])>>,
      <<JNum(7)>> }

----------------------------------------------------------------------------
(* scan_session_dir *)

\* one entry of results; exc is the exception reading the transcript raised
ReadTranscript(type, name, content) ==
    LET tk == ExtractTokens(content)
        inf == GetAgentInfo(content)
    IN IF tk.exc # "none" THEN [exc |-> tk.exc]
       ELSE IF inf.exc # "none" THEN [exc |-> inf.exc]
       ELSE [exc |-> "none", type |-> type, path |-> name,
             agent_id |-> IF type = "subagent"
                          THEN Remove(Stem(name), AGENT) ELSE <<>>,
             tokens |-> tk.totals, info |-> inf.info]

\* the agent files of session d in the order scan_session_dir reads them
AgentFilesOf(t, d) == IF t[d].sub THEN Sorted(GlobAgents(t, d)) ELSE <<>>

\* scan_session_dir(d), the transcripts holding what content gives:
\* results, or the first exception a transcript raises
ScanSessionDir(t, d, content) ==
    LET mainName == d \o JSONL
        files == (IF MainExists(d) THEN <<mainName>> ELSE <<>>) \o AgentFilesOf(t, d)
        read == [i \in 1..Len(files) |->
                    ReadTranscript(IF files[i] = mainName THEN "main" ELSE "subagent",
                                   files[i], content[files[i]])]
        bad == {i \in 1..Len(files) : read[i].exc # "none"}
    IN IF bad # {}
       THEN [exc |-> read[CHOOSE i \in bad : \A j \in bad : i <= j].exc,
             results |-> <<>>]
       ELSE [exc |-> "none", results |-> read]

\* the transcripts scan_session_dir(d) opens
FilesOf(t, d) ==
    (IF MainExists(d) THEN {d \o JSONL} ELSE {}) \cup GlobAgents(t, d)

----------------------------------------------------------------------------
(* The report *)

TotalInput(tokens) ==
    tokens["input_tokens"] + tokens["cache_creation_input_tokens"]
        + tokens["cache_read_input_tokens"]

\* info.get(k, "") for the dict get_agent_info returned
InfoGet(info, k) == IF k \in DOMAIN info THEN info[k] ELSE JStr(<<>>)

\* lines 211-228: the entry collected for one subagent result
Entry(result) ==
    LET task == InfoGet(result.info, "task").v IN
    [agent_id |-> result.agent_id,
     issue |-> ExtractIssueNumber(task),
     branch |-> InfoGet(result.info, "git_branch"),
     task |-> Prefix(task, EntryTaskMax),
     tokens |-> result.tokens,
     total_tokens |-> TotalInput(result.tokens) + result.tokens["output_tokens"]]
    @@ CostFields(result.tokens)

\* lines 231-238: the detail printed for one subagent result
Detail(e) == [kind |-> "subagent", agent_id |-> e.agent_id, issue |-> e.issue]

\* the sort key of line 249: x["issue"] or "999"
SortKey(e) == IF e.issue # <<>> THEN e.issue ELSE <<"9", "9", "9">>

\* sorted(s, key=SortKey): the sort is stable and compares the keys as str,
\* so the row at place i goes after the rows with a smaller key and after
\* the rows before it with an equal key
RowsBefore(s, i) ==
    {j \in 1..Len(s) :
        \/ StrLess(SortKey(s[j]), SortKey(s[i]))
        \/ j < i /\ ~StrLess(SortKey(s[i]), SortKey(s[j]))}

SortRows(s) ==
    [k \in 1..Len(s) |->
        s[CHOOSE i \in 1..Len(s) : Cardinality(RowsBefore(s, i)) = k - 1]]

\* the running sum of lines 252-253 over the printed rows
RECURSIVE SumOf(_, _)
SumOf(rows, field) ==
    IF rows = <<>> THEN 0 ELSE rows[1][field] + SumOf(Tail(rows), field)

\* SavingsPct without the test of total_opus
SavingsPctUnguarded(total_haiku, total_opus) ==
    IF total_opus # 0
    THEN [exc |-> "none", num |-> (total_opus - total_haiku) * 100, den |-> total_opus]
    ELSE [exc |-> "ZeroDivisionError", num |-> 0, den |-> 1]

\* line 256, as the exact fraction num/den
SavingsPct(total_haiku, total_opus) ==
    IF total_opus > 0
    THEN [exc |-> "none", num |-> (total_opus - total_haiku) * 100, den |-> total_opus]
    ELSE [exc |-> "none", num |-> 0, den |-> 1]

\* lines 241-258: the summary table
Table(subagents) ==
    LET rows == SortRows(subagents)
        total_haiku == SumOf(rows, "haiku_cost")
        total_opus == SumOf(rows, "opus_cost")
        pct == SavingsPct(total_haiku, total_opus)
    IN [kind |-> "table", exc |-> pct.exc, rows |-> rows,
        total_haiku |-> total_haiku, total_opus |-> total_opus,
        saved |-> total_opus - total_haiku, savings_pct |-> pct]

\* format_github_comment, printed by the single-file run
Comment(agent_id, tokens, info) ==
    [kind |-> "comment", agent_id |-> agent_id,
     total_input |-> TotalInput(tokens), tokens |-> tokens,
     total |-> TotalInput(tokens) + tokens["output_tokens"],
     branch |-> IF "git_branch" \in DOMAIN info THEN info["git_branch"]
                ELSE JStr(Unknown)]

----------------------------------------------------------------------------
(* main of extract-tokens.py *)

MAIN == <<"m", "a", "i", "n">>

\* command lines: no argument, --summary, a directory name, a transcript
\* name, an agent transcript name with --summary
Argvs ==
    { <<>>,
      <<SUMMARY>>,
      <<<<"x">>>>,
      <<<<"a">> \o JSONL>>,
      <<SUMMARY, AgentFile(<<"1">>)>> }

\* line 162
PathArgs(av) == SelectSeq(av, LAMBDA a : ~StartsWith(a, <<"-", "-">>))

\* line 165: the run reads one transcript and stops
SingleFile(av) == PathArgs(av) # <<>> /\ Suffix(PathArgs(av)[1]) = JSONL

InitMain ==
    /\ argv \in Argvs
    /\ argKind \in IF PathArgs(argv) = <<>> THEN {"none"}
                   ELSE {"missing", "file", "dir"}
    /\ defaultKind \in {"missing", "dir"}
    /\ pc = "start"
    /\ summary_only = FALSE
    /\ project_dir = "default"
    /\ tree = NoTree
    /\ sessions = <<>>
    /\ cursor = 1
    /\ all_subagents = <<>>
    /\ appended = <<>>
    /\ out = <<>>
    /\ exc = "none"
    /\ exit_status = "none"

\* the run ends: with an uncaught exception e (status 1), or with a status
Ends(e, status) ==
    /\ pc' = "done"
    /\ exc' = e
    /\ exit_status' = status

\* lines 166-171 on a path that names a transcript holding content
SingleFileRun(path, content) ==
    LET tk == ExtractTokens(content)
        inf == GetAgentInfo(content)
        agent_id == IF IsSubstring(AGENT, Stem(path))
                    THEN Remove(Stem(path), AGENT) ELSE MAIN
    IN IF tk.exc # "none" THEN Ends(tk.exc, "1") /\ out' = out
       ELSE IF inf.exc # "none" THEN Ends(inf.exc, "1") /\ out' = out
       ELSE /\ Ends("none", "0")
            /\ out' = Append(out, Comment(agent_id, tk.totals, inf.info))

\* lines 159-177: the arguments, the single-file run, the choice of the root
Start ==
    /\ pc = "start"
    /\ summary_only' = (SUMMARY \in Range(argv))
    /\ IF SingleFile(argv)
       THEN /\ \E content \in SampleFiles :
                 IF argKind = "file"
                 THEN SingleFileRun(PathArgs(argv)[1], content)
                 ELSE /\ Ends(IF argKind = "dir" THEN "IsADirectoryError"
                              ELSE "FileNotFoundError", "1")
                      /\ out' = out
            /\ project_dir' = project_dir
       ELSE /\ project_dir' = IF PathArgs(argv) # <<>> /\ argKind = "dir"
                              THEN "arg" ELSE "default"
            /\ IF project_dir' = "default" /\ defaultKind = "missing"
               THEN /\ Ends("none", "1")
                    /\ out' = Append(out, [kind |-> "error"])
               ELSE /\ pc' = "discover"
                    /\ UNCHANGED <<out, exc, exit_status>>
    /\ UNCHANGED <<tree, sessions, cursor, all_subagents, appended>>
    /\ UNCHANGED <<worldVars, extractVars, unitVars, dnsVars>>

\* lines 180-187: the sessions of the root, whose content is t
Discover ==
    /\ pc = "discover"
    /\ \E t \in Trees :
        /\ tree' = t
        /\ sessions' = FindSessions(t)
        /\ IF sessions' = <<>>
           THEN /\ Ends("none", "0")
                /\ out' = Append(out, [kind |-> "nosessions"])
           ELSE /\ pc' = "scan"
                /\ UNCHANGED <<out, exc, exit_status>>
    /\ UNCHANGED <<summary_only, project_dir, cursor, all_subagents, appended>>
    /\ UNCHANGED <<worldVars, extractVars, unitVars, dnsVars>>

\* the subagent results among results
Subagents(results) == SelectSeq(results, LAMBDA r : r.type = "subagent")

\* lines 192-238 for one session: scan its directory, collect and print
ProcessSession ==
    /\ pc = "scan"
    /\ cursor <= Len(sessions)
    /\ \E content \in [FilesOf(tree, sessions[cursor]) -> SampleFiles] :
       \E r \in {ScanSessionDir(tree, sessions[cursor], content)} :
       \E subs \in {Subagents(r.results)} :
       \E entries \in {[i \in 1..Len(subs) |-> Entry(subs[i])]} :
         IF r.exc # "none"
         THEN /\ Ends(r.exc, "1")
              /\ UNCHANGED <<cursor, all_subagents, appended, out>>
         ELSE /\ all_subagents' = all_subagents \o entries
              /\ appended' = appended \o
                     [i \in 1..Len(subs) |->
                         [session |-> sessions[cursor], file |-> subs[i].path]]
              /\ out' = IF summary_only THEN out
                        ELSE out \o <<[kind |-> "session", name |-> sessions[cursor]]>>
                                 \o [i \in 1..Len(subs) |-> Detail(entries[i])]
              /\ cursor' = cursor + 1
              /\ UNCHANGED <<pc, exc, exit_status>>
    /\ UNCHANGED <<summary_only, project_dir, tree, sessions>>
    /\ UNCHANGED <<worldVars, extractVars, unitVars, dnsVars>>

\* lines 241-258: every session is scanned; print the table and return
PrintSummary ==
    /\ pc = "scan"
    /\ cursor > Len(sessions)
    /\ \E tb \in {Table(all_subagents)} :
       IF tb.exc # "none"
       THEN Ends(tb.exc, "1") /\ out' = out
       ELSE Ends("none", "0") /\ out' = Append(out, tb)
    /\ UNCHANGED <<summary_only, project_dir, tree, sessions, cursor,
                   all_subagents, appended>>
    /\ UNCHANGED <<worldVars, extractVars, unitVars, dnsVars>>

----------------------------------------------------------------------------
(* main of add-records-from-scan.py *)

\* a scan record holds Type, Name, Value and Ttl; Priority, Weight and Port
\* are optional
RecordKeys == {"Type", "Name", "Value", "Ttl"}
RecordShapes == {RecordKeys, RecordKeys \cup {"Priority", "Weight", "Port"}}

\* the Records list of a scan result: record i holds the keys rs[i]
RecordLists ==
    UNION {[1..n -> RecordShapes] : n \in 0..MaxRecords}

\* what extract_scan_results returns: None, or the parsed object
ScanResults ==
    {[found |-> FALSE, Records |-> <<>>]}
    \cup {[found |-> TRUE, Records |-> rs] : rs \in RecordLists}

\* sys.argv[6:7]: no max_records argument, or the integer it holds
MaxArgs == {<<>>} \cup {<<n>> : n \in 0..MaxRecords}

\* bool(v) of a JSON value
Truthy(v) ==
    CASE v.t = "null" -> FALSE
      [] v.t = "num" -> v.v # 0
      [] v.t = "str" -> v.v # <<>>
      [] v.t = "list" -> v.v # <<>>
      [] v.t = "obj" -> DOMAIN v.v # {}

\* what curl gives back: a failed run, or a body that json.loads parses or
\* rejects
CurlResults ==
    { [rc |-> 1, body |-> Bad],
      [rc |-> 0, body |-> Bad],
      [rc |-> 0, body |-> JObj([Id |-> JNum(4)])],
      [rc |-> 0, body |-> JObj([Id |-> JNum(0)])],
      [rc |-> 0, body |-> JObj([Message |-> JStr(<<"x">>)])],
      [rc |-> 0, body |-> JObj(EmptyDict)],
      [rc |-> 0, body |-> JNull],
      [rc |-> 0, body |-> JList(<<>>)],
      [rc |-> 0, body |-> JList(<<JNum(1)>>)],
      [rc |-> 0, body |-> JStr(<<"o">>)] }

\* records[:n], as Python slices
Slice(s, n) ==
    IF n >= 0 THEN SubSeq(s, 1, Min(n, Len(s)))
    ELSE SubSeq(s, 1, Len(s) + n)

\* add_record: the pair (resp, error) for what curl gave back
AddRecord(curl) ==
    IF curl.rc # 0 THEN [resp |-> JNull, error |-> TRUE]
    ELSE IF curl.body = Bad THEN [resp |-> JNull, error |-> TRUE]
    ELSE [resp |-> curl.body, error |-> FALSE]

\* lines 168-176: "error", "success", "unexpected", or the exception
\* resp.get raises on a response that is no object
Outcome(r) ==
    IF r.error THEN "error"
    ELSE IF ~Truthy(r.resp) THEN "unexpected"
    ELSE IF r.resp.t # "obj" THEN "AttributeError"
    ELSE IF Truthy(Get(r.resp, "Id", JNull)) THEN "success"
    ELSE "unexpected"

InitDns ==
    /\ dns_argv \in MaxArgs
    /\ dns_data \in ScanResults
    /\ dns_pc = "start"
    /\ max_records = DefaultMaxRecords
    /\ dns_i = 1
    /\ success_count = 0
    /\ error_count = 0
    /\ requests = <<>>
    /\ dns_exc = "none"
    /\ dns_exit = "none"

\* lines 127-151: the arguments and the scan result
DnsStart ==
    /\ dns_pc = "start"
    /\ max_records' = IF dns_argv # <<>> THEN dns_argv[1] ELSE DefaultMaxRecords
    /\ IF ~dns_data.found
       THEN dns_pc' = "done" /\ dns_exit' = "1"
       ELSE IF dns_data.Records = <<>>
       THEN dns_pc' = "done" /\ dns_exit' = "0"
       ELSE dns_pc' = "loop" /\ dns_exit' = dns_exit
    /\ UNCHANGED <<dns_argv, dns_data, dns_i, success_count, error_count,
                   requests, dns_exc>>
    /\ UNCHANGED <<extractVars, unitVars, worldVars, mainVars>>

\* lines 159-176 for one record: the request, then the count of its outcome
DnsAddRecord ==
    /\ dns_pc = "loop"
    /\ dns_i <= Len(Slice(dns_data.Records, max_records))
    /\ \E curl \in CurlResults :
       \E o \in {Outcome(AddRecord(curl))} :
         /\ requests' = Append(requests, dns_i)
         /\ IF o = "AttributeError"
            THEN /\ dns_pc' = "done"
                 /\ dns_exc' = o
                 /\ dns_exit' = "1"
                 /\ UNCHANGED <<dns_i, success_count, error_count>>
            ELSE /\ success_count' = success_count + (IF o = "success" THEN 1 ELSE 0)
                 /\ error_count' = error_count + (IF o = "success" THEN 0 ELSE 1)
                 /\ dns_i' = dns_i + 1
                 /\ UNCHANGED <<dns_pc, dns_exc, dns_exit>>
    /\ UNCHANGED <<dns_argv, dns_data, max_records>>
    /\ UNCHANGED <<extractVars, unitVars, worldVars, mainVars>>

\* lines 178-182: the summary and the exit status
DnsFinish ==
    /\ dns_pc = "loop"
    /\ dns_i > Len(Slice(dns_data.Records, max_records))
    /\ dns_pc' = "done"
    /\ dns_exit' = IF error_count > 0 THEN "1" ELSE "0"
    /\ UNCHANGED <<dns_argv, dns_data, max_records, dns_i, success_count,
                   error_count, requests, dns_exc>>
    /\ UNCHANGED <<extractVars, unitVars, worldVars, mainVars>>

----------------------------------------------------------------------------
(* Specifications: each program, or function, on its own *)

IdleExtract == lines = <<>> /\ totals = ZeroTotals /\ fstatus = "idle"

IdleUnit == ufn = "none" /\ uarg = <<>> /\ uret = [status |-> "idle"]

IdleMain ==
    /\ argv = <<>> /\ argKind = "none" /\ defaultKind = "missing"
    /\ pc = "idle" /\ summary_only = FALSE /\ project_dir = "default"
    /\ tree = NoTree /\ sessions = <<>> /\ cursor = 1
    /\ all_subagents = <<>> /\ appended = <<>> /\ out = <<>>
    /\ exc = "none" /\ exit_status = "none"

IdleDns ==
    /\ dns_argv = <<>> /\ dns_data = [found |-> FALSE, Records |-> <<>>]
    /\ dns_pc = "idle" /\ max_records = DefaultMaxRecords /\ dns_i = 1
    /\ success_count = 0 /\ error_count = 0 /\ requests = <<>>
    /\ dns_exc = "none" /\ dns_exit = "none"

\* a run of extract-tokens.py
Init == InitMain /\ IdleExtract /\ IdleUnit /\ IdleDns
Next == Start \/ Discover \/ ProcessSession \/ PrintSummary
Spec == Init /\ [][Next]_vars

\* extract_tokens_from_file reading one transcript
InitScan == InitExtract /\ IdleUnit /\ IdleMain /\ IdleDns
NextScan == ReadLine \/ ReturnTotals
SpecScan == InitScan /\ [][NextScan]_vars

\* one call of get_agent_info, extract_issue_number or calculate_cost
InitCall == InitUnit /\ IdleExtract /\ IdleMain /\ IdleDns
NextCall == CallGetAgentInfo \/ CallExtractIssueNumber \/ CallCalculateCost
SpecCall == InitCall /\ [][NextCall]_vars

\* a run of add-records-from-scan.py
InitAdd == InitDns /\ IdleExtract /\ IdleUnit /\ IdleMain
NextAdd == DnsStart \/ DnsAddRecord \/ DnsFinish
SpecAdd == InitAdd /\ [][NextAdd]_vars

----------------------------------------------------------------------------
(* Properties *)

\* a line that carries the nested usage object
UsageBearing(line) ==
    /\ line.t = "obj"
    /\ "message" \in DOMAIN line.v
    /\ line.v["message"].t = "obj"
    /\ "usage" \in DOMAIN line.v["message"].v
    /\ line.v["message"].v["usage"].t = "obj"

\* field f of a usage-bearing line, 0 when the object lacks it
FieldOf(line, f) ==
    LET u == line.v["message"].v["usage"] IN
    IF f \in DOMAIN u.v /\ u.v[f].t = "num" THEN u.v[f].v ELSE 0

\* the sum of field f over the usage-bearing lines among the first n of ls
RECURSIVE FieldSum(_, _, _)
FieldSum(ls, f, n) ==
    IF n = 0 THEN 0
    ELSE FieldSum(ls, f, n - 1)
         + (IF UsageBearing(ls[n]) THEN FieldOf(ls[n], f) ELSE 0)

\* C1: for every transcript, whatever its lines are (unparseable, parseable
\* without the usage object, or usage-bearing), extract_tokens_from_file
\* never aborts, and its four counters are the sums of the usage fields over
\* the usage-bearing lines read
C1_ScanNeverAborts ==
    /\ fstatus \in {"idle", "scanning", "returned"}
    /\ \A f \in Fields : totals[f] = FieldSum(lines, f, Len(lines))

\* every usage field of every usage-bearing line of ls is at least 0
NonNegative(ls) ==
    \A i \in 1..Len(ls) :
        UsageBearing(ls[i]) => \A f \in Fields : FieldOf(ls[i], f) >= 0

\* C10, as claimed: whatever integers the usage fields are, a processed line
\* leaves each counter at least 0 and at least what it was
C10_CountersNeverDecrease ==
    [][\A f \in Fields : totals'[f] >= totals[f] /\ totals'[f] >= 0]_vars

\* C10, amended: when the usage fields of the lines read are integers that
\* are at least 0, a processed line leaves each counter at least 0 and at
\* least what it was
C10_CountersNeverDecreaseNonNegative ==
    [][NonNegative(lines') =>
        \A f \in Fields : totals'[f] >= totals[f] /\ totals'[f] >= 0]_vars

\* C10's case: two usage lines with fields at least 0 were added up
C10_Witness ==
    /\ fstatus = "scanning"
    /\ NonNegative(lines)
    /\ Len(lines) >= 2
    /\ totals["input_tokens"] >= 2
    /\ totals["cache_read_input_tokens"] >= 1

\* C9: get_agent_info fails on no first line; and a task it sets is the
\* start of the user message's content, holds no line break and is at most
\* 100 long
C9_InfoNeverFails ==
    (ufn = "get_agent_info" /\ uret.status = "done") =>
        /\ uret.exc = "none"
        /\ "task" \in DOMAIN uret.info =>
            LET task == uret.info["task"].v
                message == uarg[1].v["message"]
                content == IF "content" \in DOMAIN message.v
                           THEN message.v["content"].v ELSE <<>>
            IN /\ Len(task) <= 100
               /\ \A i \in 1..Len(task) : task[i] # "\n"
               /\ Len(task) <= Len(content)
               /\ SubSeq(content, 1, Len(task)) = task
               /\ \/ Len(task) = 100
                  \/ Len(task) = Len(content)
                  \/ content[Len(task) + 1] = "\n"

\* C5: with the configured prices and counters that are at least 0, the
\* savings opus cost - haiku cost are at least 0, and they are 0, as both
\* costs are, when the four counters are 0
C5_SavingsNonNegative ==
    (ufn = "calculate_cost" /\ uret.status = "done") =>
        /\ uret.savings = uret.opus_cost - uret.haiku_cost
        /\ uret.savings >= 0
        /\ uarg = ZeroTotals =>
            uret.savings = 0 /\ uret.opus_cost = 0 /\ uret.haiku_cost = 0

\* C5's case: costs computed for counters with cache tokens
C5_Witness ==
    /\ ufn = "calculate_cost"
    /\ uret.status = "done"
    /\ uarg["cache_creation_input_tokens"] > 0
    /\ uarg["cache_read_input_tokens"] > 0
    /\ uarg["input_tokens"] = 0
    /\ uret.savings > 0

\* the table of a report, when one was printed
HasTable == \E i \in 1..Len(out) : out[i].kind = "table"
TheTable == out[CHOOSE i \in 1..Len(out) : out[i].kind = "table"]

DigitOf(c) == Ord(c) - Ord("0")

\* the number a str of digits denotes
RECURSIVE NumberOf(_, _)
NumberOf(ds, n) ==
    IF n = 0 THEN 0 ELSE NumberOf(ds, n - 1) * 10 + DigitOf(ds[n])

\* the order C2 claims for the collected entries at places i and j
ClaimedBefore(es, i, j) ==
    LET hi == es[i].issue # <<>>
        hj == es[j].issue # <<>>
        ni == NumberOf(es[i].issue, Len(es[i].issue))
        nj == NumberOf(es[j].issue, Len(es[j].issue))
    IN IF hi /\ hj THEN ni < nj \/ (ni = nj /\ i < j)
       ELSE IF hi THEN TRUE
       ELSE IF hj THEN FALSE
       ELSE i < j

RowOrders(n) ==
    {p \in [1..n -> 1..n] : \A i, j \in 1..n : i # j => p[i] # p[j]}

\* C2: the rows of the table are the collected entries in ascending order of
\* the number of their issue reference, the entries without one after all
\* others, and entries that tie in the order they were collected
C2_RowsInNumericOrder ==
    HasTable =>
        \E p \in RowOrders(Len(all_subagents)) :
            /\ Len(TheTable.rows) = Len(all_subagents)
            /\ \A k \in 1..Len(all_subagents) :
                TheTable.rows[k] = all_subagents[p[k]]
            /\ \A a, b \in 1..Len(all_subagents) :
                a < b => ClaimedBefore(all_subagents, p[a], p[b])

\* the root C3 takes a scan to select: the path argument when one is given
ClaimedRootKind == IF PathArgs(argv) # <<>> THEN argKind ELSE defaultKind

\* C3: a scan whose selected root does not exist prints the diagnostic alone
\* and exits with status 1; a scan that finds its root and no session exits
\* with status 0
C3_MissingRootFails ==
    (pc = "done" /\ ~SingleFile(argv)) =>
        /\ ClaimedRootKind = "missing" =>
            exit_status = "1" /\ out = <<[kind |-> "error"]>>
        /\ (ClaimedRootKind = "dir" /\ sessions = <<>>) => exit_status = "0"

\* C4: a path argument that names a transcript file gives the single block
\* alone and status 0; a path argument that names a directory makes that
\* directory the root of a full scan
C4_FileGivesBlockDirGivesScan ==
    pc = "done" =>
        /\ (SingleFile(argv) /\ argKind = "file") =>
            /\ exit_status = "0"
            /\ Len(out) = 1
            /\ out[1].kind = "comment"
        /\ argKind = "dir" =>
            /\ project_dir = "arg"
            /\ exc \notin {"IsADirectoryError", "FileNotFoundError"}
            /\ \A i \in 1..Len(out) : out[i].kind # "comment"

\* the sum of a field over the first n entries of es
RECURSIVE Total(_, _, _)
Total(es, field, n) ==
    IF n = 0 THEN 0 ELSE Total(es, field, n - 1) + es[n][field]

\* the agent files of the sessions of the tree
QualifyingFiles ==
    UNION {{[session |-> d, file |-> AgentFile(a)] : a \in tree[d].agents} :
            d \in {x \in DOMAIN tree : tree[x].sub}}

Earlier(p, q) ==
    \/ StrLess(p.session, q.session)
    \/ p.session = q.session /\ StrLess(p.file, q.file)

\* C7: the sub-task transcripts are collected session by session in the
\* order of the directory names, within a session in the order of the file
\* names, nothing is skipped on the way, all are collected when the table is
\* printed, and a directory without the subagents directory gives no entry
C7_ScanOrder ==
    /\ Len(all_subagents) = Len(appended)
    /\ \A i \in 1..Len(appended) :
        /\ appended[i] \in QualifyingFiles
        /\ all_subagents[i].agent_id = Remove(Stem(appended[i].file), AGENT)
    /\ \A i, j \in 1..Len(appended) :
        i < j => Earlier(appended[i], appended[j])
    /\ \A q \in QualifyingFiles :
        (\E i \in 1..Len(appended) : Earlier(q, appended[i]))
            => q \in Range(appended)
    /\ HasTable => Range(appended) = QualifyingFiles
    /\ \A i \in 1..Len(sessions) : tree[sessions[i]].sub
    /\ (pc = "done" /\ ~SingleFile(argv) /\ exit_status = "0"
            /\ \A d \in DOMAIN tree : ~tree[d].sub)
        => out = <<[kind |-> "nosessions"]>>

\* C7's case: two sessions scanned, the first with two agent files, beside
\* a directory that holds no subagents directory
C7_Witness ==
    /\ HasTable
    /\ Len(appended) = 3
    /\ appended[1].session = appended[2].session
    /\ appended[3].session # appended[1].session
    /\ \E d \in DOMAIN tree : ~tree[d].sub

\* C8: given a scan result with records, the requests made are one for each
\* of the first max_records records, in list order; every request is
\* counted as a success or as a failure; and the exit status is 1 exactly
\* when a record failed
C8_RequestsCountedExitTellsFailure ==
    (dns_pc = "done" /\ dns_data.found /\ dns_data.Records # <<>>) =>
        /\ Len(requests) <= max_records
        /\ Len(requests) <= Len(dns_data.Records)
        /\ \A k \in 1..Len(requests) : requests[k] = k
        /\ success_count + error_count = Len(requests)
        /\ (dns_exit = "1") <=> (error_count > 0)

====
